---- MODULE Spec2Model ----
(***************************************************************************)
(* A model of libwhisper-rs: the CurveCP-style four-frame handshake of     *)
(* src/session.rs (ClientSession, ServerSession, EstablishedSession) over  *)
(* a symbolic model of the NaCl box primitive.                             *)
(*                                                                         *)
(* Byte strings are sequences of chunks; a chunk is a public key (32       *)
(* bytes), a nonce (24 bytes), a sealed box (plaintext + 16 bytes), a run  *)
(* of zero bytes, a literal, or an opaque run of bytes.  A box remembers   *)
(* its plaintext, its nonce and the precomputed key it was sealed under    *)
(* and opens only under that nonce and that key.                           *)
(***************************************************************************)
EXTENDS Integers, Sequences, FiniteSets, TLC

VARIABLES client, server, now, est, sent, last, run, welcome_rejected

vars == <<client, server, now, est, sent, last, run, welcome_rejected>>

----------------------------------------------------------------------------
(* Bounds of the model.                                                    *)

\* gen_nonce() draws from 1..MaxNonce.
MaxNonce == 1
\* The clock (in minutes) runs up to SESSION_DURATION + MaxLate.
MaxLate == 1

----------------------------------------------------------------------------
(* Program constants.                                                      *)

HANDSHAKE_DURATION == 3
SESSION_DURATION == 55
HEADER_SIZE == 57
\* length of NULL_BYTES
NULL_BYTES_LEN == 256
\* crypto_box_MACBYTES: a sealed box is 16 bytes longer than its plaintext
MACBYTES == 16
PUBLICKEYBYTES == 32
NONCEBYTES == 24
\* the shortest Initiate plaintext validate_initiate goes on to slice
MIN_INITIATE_LEN == 60

----------------------------------------------------------------------------
(* Values.                                                                 *)

\* an absent key (Option<PublicKey>::None, or from_slice returning None)
NoKey == "NoKey"

\* Keypairs are named; keypair k has public key k and secret key <<"sk", k>>.
KeyNames == {"Ci", "Si", "Cs", "Ss", "X"}
\* 32 bytes that are nobody's public key in KeyNames
JunkKey == "junk"
JunkNonce == 0 - 1
NoNonce == 0 - 2

KeyPair(k) == [public_key |-> k, secret_key |-> <<"sk", k>>]

Nonces == 1..MaxNonce

Hello == "Hello"
Welcome == "Welcome"
Initiate == "Initiate"
Ready == "Ready"
Request == "Request"
Response == "Response"
Notification == "Notification"
Termination == "Termination"

FrameKind == {Hello, Welcome, Initiate, Ready, Request, Response, Notification, Termination}

SessionState == {"Fresh", "Initiated", "Ready", "Error"}

WhisperError == {"InvalidReadyFrame", "InvalidHelloFrame", "InvalidPublicKey",
                 "DecryptionFailed", "InvalidWelcomeFrame", "InvalidInitiateFrame",
                 "IncompleteFrame", "InvalidSessionState", "BadFrame",
                 "ExpiredSession", "InitializationFailed"}

\* absent values, of the shape of the present ones
NoFrame == [id |-> NoKey, nonce |-> 0, kind |-> "NoKind", payload |-> <<>>]
NoSession == [id |-> NoKey, expire_at |-> 0, session_secret |-> {}]
NoSent == [side |-> "", op |-> "", data |-> <<>>, frame |-> NoFrame]

\* What a call returns: Ok with the value in the field of its type, Err with
\* the WhisperError, or Panic (expect / unwrap on a missing value: the call
\* returns nothing).
Res(tag, err, key, frame, session, bytes) ==
    [tag |-> tag, err |-> err, key |-> key, frame |-> frame,
     session |-> session, bytes |-> bytes, flag |-> FALSE]

OkFrame(f) == Res("Ok", "", NoKey, f, NoSession, <<>>)
OkKey(k) == Res("Ok", "", k, NoFrame, NoSession, <<>>)
OkSession(s) == Res("Ok", "", NoKey, NoFrame, s, <<>>)
OkReady(s, f) == Res("Ok", "", NoKey, f, s, <<>>)
OkBytes(b) == Res("Ok", "", NoKey, NoFrame, NoSession, b)
OkBool(b) == [Res("Ok", "", NoKey, NoFrame, NoSession, <<>>) EXCEPT !.flag = b]
Err(e) == Res("Err", e, NoKey, NoFrame, NoSession, <<>>)
Panic(m) == Res("Panic", m, NoKey, NoFrame, NoSession, <<>>)

----------------------------------------------------------------------------
(* Byte strings.                                                           *)

\* every chunk has the same fields: a tag, a key name or literal, a number
\* (a nonce, or a count of bytes) and a box
NoBox == [pt |-> <<>>, n |-> 0, k |-> {}]
Chunk(t, k, n, b) == [t |-> t, k |-> k, n |-> n, b |-> b]

PkChunk(k) == Chunk("pk", k, 0, NoBox)
NonceChunk(n) == Chunk("nonce", "", n, NoBox)
BoxChunk(b) == Chunk("box", "", 0, b)
Zeros(n) == Chunk("zeros", "", n, NoBox)
Lit(s) == Chunk("lit", s, 0, NoBox)
Raw(n) == Chunk("raw", "", n, NoBox)
\* one byte of value v
ByteChunk(v) == Chunk("byte", "", v, NoBox)

RECURSIVE ByteLen(_)
ChunkLen(c) ==
    CASE c.t = "pk" -> PUBLICKEYBYTES
      [] c.t = "nonce" -> NONCEBYTES
      [] c.t = "box" -> ByteLen(c.b.pt) + MACBYTES
      [] c.t = "zeros" -> c.n
      [] c.t = "lit" -> Len(c.k)
      [] c.t = "raw" -> c.n
      [] c.t = "byte" -> 1

ByteLen(bs) == IF bs = <<>> THEN 0 ELSE ChunkLen(Head(bs)) + ByteLen(Tail(bs))

\* a fragment of n bytes cut out of chunk c
Fragment(c, n) == IF c.t = "zeros" THEN Zeros(n) ELSE Raw(n)

\* bs[0..n]
RECURSIVE TakeBytes(_, _)
TakeBytes(bs, n) ==
    IF n = 0 \/ bs = <<>> THEN <<>>
    ELSE IF ChunkLen(Head(bs)) <= n
         THEN <<Head(bs)>> \o TakeBytes(Tail(bs), n - ChunkLen(Head(bs)))
         ELSE <<Fragment(Head(bs), n)>>

\* bs[n..]
RECURSIVE DropBytes(_, _)
DropBytes(bs, n) ==
    IF n = 0 \/ bs = <<>> THEN bs
    ELSE IF ChunkLen(Head(bs)) <= n
         THEN DropBytes(Tail(bs), n - ChunkLen(Head(bs)))
         ELSE <<Fragment(Head(bs), ChunkLen(Head(bs)) - n)>> \o Tail(bs)

\* bs[from..to]
Slice(bs, from, to) == TakeBytes(DropBytes(bs, from), to - from)

\* PublicKey::from_slice: Some(key) exactly for 32 bytes
PublicKey_from_slice(bs) ==
    IF ByteLen(bs) # PUBLICKEYBYTES THEN NoKey
    ELSE IF Len(bs) = 1 /\ bs[1].t = "pk" THEN bs[1].k ELSE JunkKey

\* Nonce::from_slice: Some(nonce) exactly for 24 bytes
Nonce_from_slice(bs) ==
    IF ByteLen(bs) # NONCEBYTES THEN NoNonce
    ELSE IF Len(bs) = 1 /\ bs[1].t = "nonce" THEN bs[1].n ELSE JunkNonce

\* the bytes of a public key (pk.0, pk.as_ref())
KeyBytes(k) == <<PkChunk(k)>>
NonceBytes(n) == <<NonceChunk(n)>>

NULL_BYTES == <<Zeros(NULL_BYTES_LEN)>>
READY_PAYLOAD == <<Lit("My body is ready")>>

----------------------------------------------------------------------------
(* The box primitive (sodiumoxide::crypto::box_).                          *)

\* Diffie-Hellman: the same key from (A.pk, B.sk) and from (B.pk, A.sk)
precompute(their_pk, our_sk) == {their_pk, our_sk[2]}

seal_precomputed(data, nonce, key) ==
    <<BoxChunk([pt |-> data, n |-> nonce, k |-> key])>>

open_precomputed(c, nonce, key) ==
    IF Len(c) = 1 /\ c[1].t = "box" /\ c[1].b.n = nonce /\ c[1].b.k = key
    THEN OkBytes(c[1].b.pt)
    ELSE Err("()")

seal(data, nonce, their_pk, our_sk) ==
    seal_precomputed(data, nonce, precompute(their_pk, our_sk))

open(c, nonce, their_pk, our_sk) ==
    open_precomputed(c, nonce, precompute(their_pk, our_sk))

----------------------------------------------------------------------------
(* Frames.                                                                 *)

Frame(id, nonce, kind, payload) ==
    [id |-> id, nonce |-> nonce, kind |-> kind, payload |-> payload]

\* Frame::length
length(f) == HEADER_SIZE + ByteLen(f.payload)

\* `kind as u8`: the discriminant of the enum, Hello = 1 and each later
\* variant one more than the one before it
kind_as_u8(kind) ==
    CASE kind = Hello -> 1
      [] kind = Welcome -> 2
      [] kind = Initiate -> 3
      [] kind = Ready -> 4
      [] kind = Request -> 5
      [] kind = Response -> 6
      [] kind = Notification -> 7
      [] kind = Termination -> 8

\* FrameKind::from; "NoKind" is None
FrameKind_from(kind) ==
    CASE kind = 1 -> Hello
      [] kind = 2 -> Welcome
      [] kind = 3 -> Initiate
      [] kind = 4 -> Ready
      [] kind = 5 -> Request
      [] kind = 6 -> Response
      [] kind = 7 -> Notification
      [] kind = 255 -> Termination
      [] OTHER -> "NoKind"

\* FrameKind::from_slice
FrameKind_from_slice(kind) ==
    IF ByteLen(kind) # 1 THEN "NoKind"
    ELSE IF kind[1].t = "byte" THEN FrameKind_from(kind[1].n) ELSE "NoKind"

\* Frame::pack (pack_to_buf into an empty buffer)
pack(f) ==
    KeyBytes(f.id) \o NonceBytes(f.nonce) \o <<ByteChunk(kind_as_u8(f.kind))>>
      \o f.payload

\* parse_frame with a payload parser that wants at least one byte
Frame_from_slice_needs_payload(i) ==
    LET kind_at == PUBLICKEYBYTES + NONCEBYTES
        rest_at == PUBLICKEYBYTES + NONCEBYTES + 1
    IN  IF ByteLen(i) <= rest_at THEN Err("IncompleteFrame")
        ELSE IF FrameKind_from_slice(Slice(i, kind_at, rest_at)) = "NoKind"
        THEN Err("BadFrame")
        ELSE OkFrame(Frame(PublicKey_from_slice(Slice(i, 0, PUBLICKEYBYTES)),
                           Nonce_from_slice(Slice(i, PUBLICKEYBYTES, kind_at)),
                           FrameKind_from_slice(Slice(i, kind_at, rest_at)),
                           DropBytes(i, rest_at)))

\* parse_frame and Frame::from_slice: take!(n) is Incomplete on fewer than n
\* bytes, map_opt! is Error when the conversion returns None, rest takes
\* what remains
Frame_from_slice(i) ==
    LET nonce_at == PUBLICKEYBYTES
        kind_at == PUBLICKEYBYTES + NONCEBYTES
        rest_at == PUBLICKEYBYTES + NONCEBYTES + 1
    IN  IF ByteLen(i) < nonce_at THEN Err("IncompleteFrame")
        ELSE IF PublicKey_from_slice(Slice(i, 0, nonce_at)) = NoKey
        THEN Err("BadFrame")
        ELSE IF ByteLen(i) < kind_at THEN Err("IncompleteFrame")
        ELSE IF Nonce_from_slice(Slice(i, nonce_at, kind_at)) = NoNonce
        THEN Err("BadFrame")
        ELSE IF ByteLen(i) < rest_at THEN Err("IncompleteFrame")
        ELSE IF FrameKind_from_slice(Slice(i, kind_at, rest_at)) = "NoKind"
        THEN Err("BadFrame")
        ELSE OkFrame(Frame(PublicKey_from_slice(Slice(i, 0, nonce_at)),
                           Nonce_from_slice(Slice(i, nonce_at, kind_at)),
                           FrameKind_from_slice(Slice(i, kind_at, rest_at)),
                           DropBytes(i, rest_at)))

----------------------------------------------------------------------------
(* EstablishedSession.                                                     *)

\* EstablishedSession::new with the secret precomputed from the session's own
\* two keys: the two sides would no longer derive the same secret
EstablishedSession_new_own_key(remote_session_key, local_session_keypair, t) ==
    [id |-> local_session_keypair.public_key,
     expire_at |-> t + SESSION_DURATION,
     session_secret |-> precompute(local_session_keypair.public_key,
                                   local_session_keypair.secret_key)]

\* EstablishedSession::new, called at time t
EstablishedSession_new(remote_session_key, local_session_keypair, t) ==
    [id |-> local_session_keypair.public_key,
     expire_at |-> t + SESSION_DURATION,
     session_secret |-> precompute(remote_session_key, local_session_keypair.secret_key)]

\* Session::is_expired for EstablishedSession, evaluated at time t
EstablishedSession_is_expired(self, t) == self.expire_at < t

\* EstablishedSession::seal_msg with the nonce gen_nonce() returned
seal_msg(self, data, nonce) ==
    [nonce |-> nonce, payload |-> seal_precomputed(data, nonce, self.session_secret)]

\* EstablishedSession::read_msg
read_msg(self, frame) ==
    LET o == open_precomputed(frame.payload, frame.nonce, self.session_secret)
    IN  IF o.tag = "Ok" THEN OkBytes(o.bytes) ELSE Err("DecryptionFailed")

\* EstablishedSession::make_message stamping every frame as a Request
make_message_request_only(self, data, kind, t, nonce) ==
    IF EstablishedSession_is_expired(self, t)
    THEN Err("ExpiredSession")
    ELSE LET s == seal_msg(self, data, nonce)
         IN  OkFrame(Frame(self.id, s.nonce, Request, s.payload))

\* EstablishedSession::make_message at time t
make_message(self, data, kind, t, nonce) ==
    IF EstablishedSession_is_expired(self, t)
    THEN Err("ExpiredSession")
    ELSE LET s == seal_msg(self, data, nonce)
         IN  OkFrame(Frame(self.id, s.nonce, kind, s.payload))

make_request(self, data, t, nonce) == make_message(self, data, Request, t, nonce)
make_response(self, data, t, nonce) == make_message(self, data, Response, t, nonce)
make_notification(self, data, t, nonce) ==
    make_message(self, data, Notification, t, nonce)

----------------------------------------------------------------------------
(* ServerSession.  Each operation yields the session after the call and    *)
(* what the call returned.                                                 *)

Outcome(self, res) == [self |-> self, res |-> res]

\* ServerSession::new at time t
ServerSession_new(local_identity_keypair, remote_session_key, session_keypair, t) ==
    [expire_at |-> t + HANDSHAKE_DURATION,
     created_at |-> t,
     local_session_keypair |-> session_keypair,
     local_identity_keypair |-> local_identity_keypair,
     remote_session_key |-> remote_session_key,
     remote_identity_key |-> NoKey,
     state |-> "Fresh"]

\* Session::is_expired for ServerSession, evaluated at time t
ServerSession_is_expired(self, t) == self.expire_at < t

\* ServerSession::make_welcome without the check of the plaintext length
make_welcome_any_length(self, hello, nonce) ==
    IF self.state # "Fresh" \/ hello.kind # Hello
    THEN Outcome(self, Err("InvalidSessionState"))
    ELSE LET o == open(hello.payload, hello.nonce, hello.id,
                       self.local_identity_keypair.secret_key)
         IN  IF o.tag = "Ok"
             THEN LET welcome_box ==
                          seal(KeyBytes(self.local_session_keypair.public_key),
                               nonce, hello.id,
                               self.local_identity_keypair.secret_key)
                  IN  Outcome([self EXCEPT !.state = "Initiated"],
                              OkFrame(Frame(hello.id, nonce, Welcome, welcome_box)))
             ELSE Outcome([self EXCEPT !.state = "Error"], Err("DecryptionFailed"))

make_welcome(self, hello, nonce) ==
    IF self.state # "Fresh" \/ hello.kind # Hello
    THEN Outcome(self, Err("InvalidSessionState"))
    ELSE LET o == open(hello.payload, hello.nonce, hello.id,
                       self.local_identity_keypair.secret_key)
         IN  IF o.tag = "Ok"
             THEN IF ByteLen(o.bytes) # NULL_BYTES_LEN
                  THEN Outcome([self EXCEPT !.state = "Error"], Err("InvalidHelloFrame"))
                  ELSE LET welcome_box ==
                               seal(KeyBytes(self.local_session_keypair.public_key),
                                    nonce, hello.id,
                                    self.local_identity_keypair.secret_key)
                       IN  Outcome([self EXCEPT !.state = "Initiated"],
                                   OkFrame(Frame(hello.id, nonce, Welcome, welcome_box)))
             ELSE Outcome([self EXCEPT !.state = "Error"], Err("DecryptionFailed"))

\* the vouch check of validate_initiate, on the opened vouch: the code takes
\* the key out of the plaintext (panicking unless it is 32 bytes) and then
\* accepts on "length is 32 OR key is the remote session key"
vouch_accepted(self, vouch_payload) ==
    LET v_pk == PublicKey_from_slice(vouch_payload)
    IN  ByteLen(vouch_payload) = PUBLICKEYBYTES \/ v_pk = self.remote_session_key

\* validate_opened returning the key found in the vouch instead of the key
\* at the head of the Initiate plaintext
validate_opened_vouch_key(self, initiate_payload) ==
    IF ByteLen(initiate_payload) < MIN_INITIATE_LEN
    THEN Err("InvalidInitiateFrame")
    ELSE LET pk == PublicKey_from_slice(Slice(initiate_payload, 0, 32))
             v_nonce == Nonce_from_slice(Slice(initiate_payload, 32, 56))
             v_box == Slice(initiate_payload, 56, ByteLen(initiate_payload))
             vo == open(v_box, v_nonce, pk, self.local_session_keypair.secret_key)
         IN  IF vo.tag = "Ok"
             THEN IF PublicKey_from_slice(vo.bytes) = NoKey
                  THEN Panic("Wrong Size Key!!!")
                  ELSE IF vouch_accepted(self, vo.bytes)
                       THEN OkKey(PublicKey_from_slice(vo.bytes))
                       ELSE Err("InvalidInitiateFrame")
             ELSE Err("InvalidInitiateFrame")

\* validate_opened returning the claimed key whether or not the vouch opens
validate_opened_ignores_vouch(self, initiate_payload) ==
    IF ByteLen(initiate_payload) < MIN_INITIATE_LEN
    THEN Err("InvalidInitiateFrame")
    ELSE OkKey(PublicKey_from_slice(Slice(initiate_payload, 0, 32)))

\* validate_initiate from the length check on, given the opened Initiate box
validate_opened(self, initiate_payload) ==
    IF ByteLen(initiate_payload) < MIN_INITIATE_LEN
    THEN Err("InvalidInitiateFrame")
    ELSE LET pk == PublicKey_from_slice(Slice(initiate_payload, 0, 32))
             v_nonce == Nonce_from_slice(Slice(initiate_payload, 32, 56))
             v_box == Slice(initiate_payload, 56, ByteLen(initiate_payload))
             vo == open(v_box, v_nonce, pk, self.local_session_keypair.secret_key)
         IN  IF vo.tag = "Ok"
             THEN IF PublicKey_from_slice(vo.bytes) = NoKey
                  THEN Panic("Wrong Size Key!!!")
                  ELSE IF vouch_accepted(self, vo.bytes)
                       THEN OkKey(pk)
                       ELSE Err("InvalidInitiateFrame")
             ELSE Err("InvalidInitiateFrame")

validate_initiate(self, initiate) ==
    LET o == open(initiate.payload, initiate.nonce, self.remote_session_key,
                  self.local_session_keypair.secret_key)
    IN  IF o.tag = "Ok"
        THEN validate_opened(self, o.bytes)
        ELSE Err("InvalidInitiateFrame")

\* ServerSession::make_ready refusing already at the last instant of the
\* handshake (>= for >)
make_ready_early_expiry(self, initiate, client_identity_key, t, nonce) ==
    IF self.state # "Initiated" \/ initiate.kind # Initiate
    THEN Outcome(self, Err("InvalidSessionState"))
    ELSE IF t - self.created_at >= HANDSHAKE_DURATION
         THEN Outcome(self, Err("ExpiredSession"))
         ELSE LET session == EstablishedSession_new(self.remote_session_key,
                                                    self.local_session_keypair, t)
                  s == seal_msg(session, READY_PAYLOAD, nonce)
              IN  Outcome([self EXCEPT !.state = "Ready",
                                       !.remote_identity_key = client_identity_key],
                          OkReady(session, Frame(initiate.id, s.nonce, Ready, s.payload)))

\* ServerSession::make_ready at time t
make_ready(self, initiate, client_identity_key, t, nonce) ==
    IF self.state # "Initiated" \/ initiate.kind # Initiate
    THEN Outcome(self, Err("InvalidSessionState"))
    ELSE IF t - self.created_at > HANDSHAKE_DURATION
         THEN Outcome(self, Err("ExpiredSession"))
         ELSE LET session == EstablishedSession_new(self.remote_session_key,
                                                    self.local_session_keypair, t)
                  s == seal_msg(session, READY_PAYLOAD, nonce)
              IN  Outcome([self EXCEPT !.state = "Ready",
                                       !.remote_identity_key = client_identity_key],
                          OkReady(session, Frame(initiate.id, s.nonce, Ready, s.payload)))

----------------------------------------------------------------------------
(* ClientSession.                                                          *)

\* ClientSession::new at time t
ClientSession_new(local_identity_keypair, remote_identity_key, session_keypair, t) ==
    [expire_at |-> t + HANDSHAKE_DURATION,
     created_at |-> t,
     local_session_keypair |-> session_keypair,
     local_identity_keypair |-> local_identity_keypair,
     remote_session_key |-> NoKey,
     remote_identity_key |-> remote_identity_key,
     state |-> "Fresh"]

\* Session::is_expired for ClientSession, evaluated at time t
ClientSession_is_expired(self, t) == self.expire_at < t

\* ClientSession::make_hello: no guard on the state, no error to return
make_hello(self, nonce) ==
    Outcome([self EXCEPT !.state = "Initiated"],
            Frame(self.local_session_keypair.public_key, nonce, Hello,
                  seal(NULL_BYTES, nonce, self.remote_identity_key,
                       self.local_session_keypair.secret_key)))

\* ClientSession::make_vouch
make_vouch(self, nonce) ==
    NonceBytes(nonce)
      \o seal(KeyBytes(self.local_session_keypair.public_key), nonce,
              self.remote_session_key, self.local_identity_keypair.secret_key)

\* ClientSession::make_initiate; v_nonce is the nonce make_vouch draws
make_initiate(self, welcome, v_nonce, nonce) ==
    IF self.state # "Initiated" \/ welcome.kind # Welcome
    THEN Outcome(self, Err("InvalidSessionState"))
    ELSE LET o == open(welcome.payload, welcome.nonce, self.remote_identity_key,
                       self.local_session_keypair.secret_key)
         IN  IF o.tag = "Ok"
             THEN LET key == PublicKey_from_slice(o.bytes)
                  IN  IF key # NoKey
                      THEN LET self1 == [self EXCEPT !.remote_session_key = key]
                               initiate_box ==
                                   KeyBytes(self1.local_identity_keypair.public_key)
                                     \o make_vouch(self1, v_nonce)
                               payload == seal(initiate_box, nonce,
                                               self1.remote_session_key,
                                               self1.local_session_keypair.secret_key)
                           IN  Outcome(self1, OkFrame(Frame(welcome.id, nonce, Initiate, payload)))
                      ELSE Outcome([self EXCEPT !.state = "Error"],
                                   Err("InvalidWelcomeFrame"))
             ELSE Outcome([self EXCEPT !.state = "Error"], Err("DecryptionFailed"))

\* ClientSession::read_ready that returns the session and leaves the state
\* as it was
read_ready_keeps_state(self, ready, t) ==
    IF self.state # "Initiated" \/ ready.kind # Ready
    THEN Outcome(self, Err("InvalidSessionState"))
    ELSE IF self.remote_session_key = NoKey
         THEN Outcome(self, Panic("unwrap on None"))
         ELSE LET session == EstablishedSession_new(self.remote_session_key,
                                                    self.local_session_keypair, t)
                  msg == read_msg(session, ready)
              IN  IF msg.tag # "Ok"
                  THEN Outcome(self, msg)
                  ELSE IF msg.bytes = READY_PAYLOAD
                       THEN Outcome(self, OkSession(session))
                       ELSE Outcome(self, Err("InvalidReadyFrame"))

\* ClientSession::read_ready at time t
read_ready(self, ready, t) ==
    IF self.state # "Initiated" \/ ready.kind # Ready
    THEN Outcome(self, Err("InvalidSessionState"))
    ELSE IF self.remote_session_key = NoKey
         THEN Outcome(self, Panic("unwrap on None"))
         ELSE LET session == EstablishedSession_new(self.remote_session_key,
                                                    self.local_session_keypair, t)
                  msg == read_msg(session, ready)
              IN  IF msg.tag # "Ok"
                  THEN Outcome(self, msg)
                  ELSE IF msg.bytes = READY_PAYLOAD
                       THEN Outcome([self EXCEPT !.state = "Ready"], OkSession(session))
                       ELSE Outcome(self, Err("InvalidReadyFrame"))

----------------------------------------------------------------------------
(* The frames a caller may pass.  A caller may invoke any operation at any *)
(* time with any frame: one the peer emits in a handshake, one relabelled  *)
(* or damaged in transit, or one made up from the keys of KeyNames.        *)

Sk(k) == <<"sk", k>>

\* the two sessions as the tests construct them, at time 0
Client0 == ClientSession_new(KeyPair("Ci"), "Si", KeyPair("Cs"), 0)
Server0 == ServerSession_new(KeyPair("Si"), "Cs", KeyPair("Ss"), 0)

\* the frames the two sessions emit when each is given the other's frames
HonestHello == {make_hello(Client0, n).res : n \in Nonces}
HonestWelcome ==
    {make_welcome(Server0, h, n).res.frame : h \in HonestHello, n \in Nonces}
HonestInitiate ==
    {make_initiate([Client0 EXCEPT !.state = "Initiated"], w, vn, n).res.frame :
        w \in HonestWelcome, vn \in Nonces, n \in Nonces}
HonestReady ==
    {make_ready([Server0 EXCEPT !.state = "Initiated"], i, "Ci", 0, n).res.frame :
        i \in HonestInitiate, n \in Nonces}
Honest == HonestHello \cup HonestWelcome \cup HonestInitiate \cup HonestReady

\* a frame damaged or rewritten in transit
Tampered(f) ==
    {[f EXCEPT !.payload = <<Raw(ByteLen(f.payload))>>],
     [f EXCEPT !.id = "X"],
     [f EXCEPT !.nonce = 0]}

HelloForged ==
    {Frame(k, 0, Hello, seal(<<Zeros(z)>>, 0, "Si", Sk(k))) :
        k \in {"X", "Cs"}, z \in {NULL_BYTES_LEN, NULL_BYTES_LEN - 1, 0}}

WelcomeForged ==
    {Frame("Cs", 0, Welcome, seal(pt, 0, "Cs", Sk(i))) :
        i \in {"Si", "X"}, pt \in {KeyBytes("X"), KeyBytes("Ss"), <<Zeros(16)>>}}

VouchForged ==
    {seal(vpt, 0, "Ss", Sk(j)) :
        j \in {"Ci", "X"},
        vpt \in {KeyBytes("Cs"), KeyBytes("X"), KeyBytes("Ss"), <<Zeros(16)>>}}

InitiateBodies ==
    {KeyBytes(i) : i \in {"Ci", "X"}}
      \cup {KeyBytes(i) \o NonceBytes(0) \o v : i \in {"Ci", "X"}, v \in VouchForged}

InitiateForged ==
    {Frame("Cs", 0, Initiate, seal(body, 0, "Ss", Sk("Cs"))) : body \in InitiateBodies}
      \cup {Frame("Cs", 0, Initiate,
                   seal(KeyBytes("X") \o NonceBytes(0) \o v, 0, "Ss", Sk("X"))) :
                v \in {seal(KeyBytes("X"), 0, "Ss", Sk("X"))}}

ReadyForged ==
    {Frame("Cs", 0, Ready, seal_precomputed(pt, 0, precompute("Cs", Sk(s)))) :
        s \in {"Ss", "X"}, pt \in {READY_PAYLOAD, <<Lit("My body is tired")>>}}

\* what an operation expecting frames of one kind may be given
Inputs(kind, honest, forged) ==
    honest
      \cup UNION {Tampered(f) : f \in honest}
      \cup (IF kind = Hello THEN HonestWelcome ELSE HonestHello)
      \cup {[f EXCEPT !.kind = kind] : f \in Honest \ honest}
      \cup forged

HelloInputs == Inputs(Hello, HonestHello, HelloForged)
WelcomeInputs == Inputs(Welcome, HonestWelcome, WelcomeForged)
InitiateInputs == Inputs(Initiate, HonestInitiate, InitiateForged)
ReadyInputs == Inputs(Ready, HonestReady, ReadyForged)
\* make_ready reads only the kind and the id of the frame it is given
MakeReadyInputs ==
    HonestInitiate \cup UNION {Tampered(f) : f \in HonestInitiate} \cup HonestHello

\* the instants at which handshake calls are made: construction, the last
\* minute of the handshake and the first minute after it
HandshakeTimes == {0, HANDSHAKE_DURATION, HANDSHAKE_DURATION + 1}

----------------------------------------------------------------------------
(* The handshake: one client session and one server session, each driven  *)
(* by a caller.                                                            *)
(*                                                                         *)
(*   last  the latest call: operation, side, arguments and what it returned*)
(*   run   how far the calls so far follow the handshake of the tests      *)
(*         (each step once, in order, on the frame the peer just returned, *)
(*         within HANDSHAKE_DURATION); "off" once they do not              *)
(*   est   the EstablishedSession each side got from a handshake that ran  *)
(*         as in the tests (NoSession until then)                          *)
(*   welcome_rejected  a make_initiate call has failed to open its frame   *)
(*   sent  is used after the handshake (see the channel below)             *)

Call(op, side, arg, key, data, res) ==
    [op |-> op, side |-> side, arg |-> arg, key |-> key, data |-> data, res |-> res]

InTime(self) == now - self.created_at <= HANDSHAKE_DURATION

Init ==
    /\ now = 0
    /\ client = Client0
    /\ server = Server0
    /\ run = "start"
    /\ est = [client |-> NoSession, server |-> NoSession]
    /\ sent = NoSent
    /\ welcome_rejected = FALSE
    /\ last = Call("new", "both", NoFrame, NoKey, <<>>, OkFrame(NoFrame))

MakeHello ==
    \E nonce \in Nonces :
        LET o == make_hello(client, nonce)
        IN  /\ client' = o.self
            /\ last' = Call("make_hello", "client", NoFrame, NoKey, <<>>, OkFrame(o.res))
            /\ run' = IF run = "start" /\ InTime(client) THEN "hello" ELSE "off"
            /\ UNCHANGED <<server, now, est, sent, welcome_rejected>>

MakeWelcome ==
    \E hello \in HelloInputs, nonce \in Nonces :
        LET o == make_welcome(server, hello, nonce)
        IN  /\ server' = o.self
            /\ last' = Call("make_welcome", "server", hello, NoKey, <<>>, o.res)
            /\ run' = IF /\ run = "hello" /\ last.op = "make_hello"
                         /\ last.res = OkFrame(hello) /\ InTime(server)
                      THEN "welcome" ELSE "off"
            /\ UNCHANGED <<client, now, est, sent, welcome_rejected>>

MakeInitiate ==
    \E welcome \in WelcomeInputs, v_nonce \in Nonces, nonce \in Nonces :
        LET o == make_initiate(client, welcome, v_nonce, nonce)
        IN  /\ client' = o.self
            /\ last' = Call("make_initiate", "client", welcome, NoKey, <<>>, o.res)
            /\ run' = IF /\ run = "welcome" /\ last.op = "make_welcome"
                         /\ last.res = OkFrame(welcome) /\ InTime(client)
                      THEN "initiate" ELSE "off"
            /\ welcome_rejected' = (welcome_rejected \/ o.res = Err("DecryptionFailed"))
            /\ UNCHANGED <<server, now, est, sent>>

ValidateInitiate ==
    \E initiate \in InitiateInputs :
        /\ last' = Call("validate_initiate", "server", initiate, NoKey, <<>>,
                        validate_initiate(server, initiate))
        /\ run' = IF /\ run = "initiate" /\ last.op = "make_initiate"
                     /\ last.res = OkFrame(initiate) /\ InTime(server)
                  THEN "validated" ELSE "off"
        /\ UNCHANGED <<client, server, now, est, sent, welcome_rejected>>

\* the keys a caller may pass to make_ready: what validate_initiate just
\* returned, or any key of its choosing
IdentityInputs ==
    {"Ci", "X"} \cup (IF last.op = "validate_initiate" /\ last.res.tag = "Ok"
                      THEN {last.res.key} ELSE {})

MakeReady ==
    \E initiate \in MakeReadyInputs, key \in IdentityInputs, nonce \in Nonces :
        LET o == make_ready(server, initiate, key, now, nonce)
        IN  /\ server' = o.self
            /\ last' = Call("make_ready", "server", initiate, key, <<>>, o.res)
            /\ run' = IF /\ run = "validated" /\ last.op = "validate_initiate"
                         /\ initiate = last.arg /\ last.res = OkKey(key)
                         /\ InTime(server)
                      THEN "ready_made" ELSE "off"
            /\ est' = IF run' # "off" /\ o.res.tag = "Ok"
                      THEN [est EXCEPT !.server = o.res.session] ELSE est
            /\ UNCHANGED <<client, now, sent, welcome_rejected>>

ReadReady ==
    \E ready \in ReadyInputs :
        LET o == read_ready(client, ready, now)
        IN  /\ client' = o.self
            /\ last' = Call("read_ready", "client", ready, NoKey, <<>>, o.res)
            /\ run' = IF /\ run = "ready_made" /\ last.op = "make_ready"
                         /\ last.res.tag = "Ok" /\ ready = last.res.frame
                         /\ InTime(client)
                      THEN "done" ELSE "off"
            /\ est' = IF run' # "off" /\ o.res.tag = "Ok"
                      THEN [est EXCEPT !.client = o.res.session] ELSE est
            /\ UNCHANGED <<server, now, sent, welcome_rejected>>

\* Session::is_expired, asked of either handshake session
ClientIsExpired ==
    /\ last' = Call("is_expired", "client", NoFrame, NoKey, <<>>,
                    OkBool(ClientSession_is_expired(client, now)))
    /\ UNCHANGED <<client, server, now, est, sent, run, welcome_rejected>>

ServerIsExpired ==
    /\ last' = Call("is_expired", "server", NoFrame, NoKey, <<>>,
                    OkBool(ServerSession_is_expired(server, now)))
    /\ UNCHANGED <<client, server, now, est, sent, run, welcome_rejected>>

\* time passes between calls
Advance(times) ==
    \E t \in times :
        /\ t > now
        /\ now' = t
        /\ UNCHANGED <<client, server, est, sent, last, run, welcome_rejected>>

Tick == Advance(HandshakeTimes)

\* what the caller of the client session may do, and the caller of the
\* server session
ClientNext == MakeHello \/ MakeInitiate \/ ReadReady
ServerNext == MakeWelcome \/ ValidateInitiate \/ MakeReady

Next == ClientNext \/ ServerNext \/ Tick

Spec == Init /\ [][Next]_vars

\* The two sessions share no state: each side on its own, under every call
\* and every frame.
SpecClient == Init /\ [][ClientNext \/ ClientIsExpired \/ Tick]_vars
SpecServer == Init /\ [][ServerNext \/ ServerIsExpired \/ Tick]_vars

----------------------------------------------------------------------------
(* The channel: the handshake run as in the tests (test::handshake), then  *)
(* the two EstablishedSessions sealing and opening application frames.     *)
(*                                                                         *)
(*   sent  the latest application frame, with who sealed what into it      *)

Msgs == {<<>>, <<Lit("ping")>>}

ChannelTimes ==
    HandshakeTimes \cup {SESSION_DURATION + d : d \in 0..MaxLate}

\* the frames read_msg may be given: the peer's, damaged ones, a Ready frame
MsgInputs ==
    (IF sent = NoSent THEN {} ELSE {sent.frame} \cup Tampered(sent.frame))
      \cup HonestReady

MakeMessage ==
    \E side \in {"client", "server"},
       op \in {"make_request", "make_response", "make_notification"},
       data \in Msgs, nonce \in Nonces :
        /\ est[side] # NoSession
        /\ LET res == CASE op = "make_request" -> make_request(est[side], data, now, nonce)
                        [] op = "make_response" -> make_response(est[side], data, now, nonce)
                        [] op = "make_notification" ->
                               make_notification(est[side], data, now, nonce)
           IN  /\ sent' = IF res.tag = "Ok"
                          THEN [side |-> side, op |-> op, data |-> data, frame |-> res.frame]
                          ELSE sent
               /\ last' = Call(op, side, NoFrame, NoKey, data, res)
        /\ UNCHANGED <<client, server, now, est, run, welcome_rejected>>

ReadMsg ==
    \E side \in {"client", "server"}, frame \in MsgInputs :
        /\ est[side] # NoSession
        /\ last' = Call("read_msg", side, frame, NoKey, <<>>, read_msg(est[side], frame))
        /\ UNCHANGED <<client, server, now, est, sent, run, welcome_rejected>>

\* a handshake step of the run of the tests
Handshake == (ClientNext \/ ServerNext) /\ run' # "off"

LateTick == Advance(ChannelTimes)

ChannelNext == Handshake \/ MakeMessage \/ ReadMsg \/ LateTick

SpecChannel == Init /\ [][ChannelNext]_vars

----------------------------------------------------------------------------
(* The run of the tests with both sides taking their next step whenever    *)
(* it is enabled and every step taken within HANDSHAKE_DURATION of the     *)
(* creation of the sessions; the frames of the handshake are delivered in  *)
(* order, so the traffic of the channel follows the Ready frame.           *)

\* time passes, and does not pass the deadline of an unfinished handshake
TimelyTick ==
    /\ Advance(ChannelTimes)
    /\ run # "done" => now' - client.created_at <= HANDSHAKE_DURATION

Traffic == run = "done" /\ (MakeMessage \/ ReadMsg)

\* the next step of an unfinished handshake
Step == run # "done" /\ Handshake

ProgressNext == Step \/ Traffic \/ TimelyTick

SpecProgress == Init /\ [][ProgressNext]_vars /\ WF_vars(Step)

----------------------------------------------------------------------------
(* The frame codec: a frame is packed, and the bytes, whole or cut short   *)
(* or with another kind byte, are parsed.                                  *)

CodecPayloads == {<<>>, <<Zeros(3)>>}

\* the frames of frame::test::make_frame, over every id, nonce and kind
CodecFrames ==
    {Frame(id, nonce, kind, payload) :
        id \in KeyNames, nonce \in 0..MaxNonce, kind \in FrameKind,
        payload \in CodecPayloads}

\* the kind byte of frame::test::bad_frame
BadKindByte == 13

\* the kind byte FrameKind::from maps to Termination
TerminationByte == 255

\* the bytes from_slice may be given once f has been packed: the packed
\* frame, whole or cut short, the frame with another kind byte, and bytes of
\* no frame at all
CodecInputs(f) ==
    {pack(f),
     <<>>,
     TakeBytes(pack(f), 3),
     TakeBytes(pack(f), HEADER_SIZE - 1),
     <<Raw(HEADER_SIZE - 1)>>,
     KeyBytes(f.id) \o NonceBytes(f.nonce) \o <<ByteChunk(BadKindByte)>>
       \o f.payload,
     KeyBytes(f.id) \o NonceBytes(f.nonce) \o <<ByteChunk(TerminationByte)>>
       \o f.payload}

Pack ==
    \E f \in CodecFrames :
        /\ last' = Call("pack", "", f, NoKey, <<>>, OkBytes(pack(f)))
        /\ UNCHANGED <<client, server, now, est, sent, run, welcome_rejected>>

FromSlice ==
    /\ last.op = "pack"
    /\ \E i \in CodecInputs(last.arg) :
           last' = Call("from_slice", "", last.arg, NoKey, i, Frame_from_slice(i))
    /\ UNCHANGED <<client, server, now, est, sent, run, welcome_rejected>>

SpecCodec == Init /\ [][Pack \/ FromSlice]_vars

----------------------------------------------------------------------------
(* Properties.                                                             *)

\* C1 (handshake success law): when make_hello, make_welcome, make_initiate,
\* validate_initiate, make_ready and read_ready are called in that order,
\* each on the frame the peer just returned and within HANDSHAKE_DURATION,
\* every step returns Ok, both sessions end in state Ready, and the two
\* EstablishedSessions hold the same secret: precompute(S_session.pk,
\* C_session.sk) on the client, precompute(C_session.pk, S_session.sk) on the
\* server.
C1_HandshakeSucceeds ==
    /\ run = "hello" => last.res.tag = "Ok" /\ client.state = "Initiated"
    /\ run = "welcome" => last.res.tag = "Ok" /\ server.state = "Initiated"
    /\ run = "initiate" => last.res.tag = "Ok" /\ client.state = "Initiated"
    /\ run = "validated" => last.res.tag = "Ok"
    /\ run = "ready_made" => server.state = "Ready" /\ est.server # NoSession
    /\ run = "done" =>
          /\ client.state = "Ready" /\ server.state = "Ready"
          /\ est.client # NoSession /\ est.server # NoSession
          /\ est.client.session_secret =
                precompute(server.local_session_keypair.public_key,
                           client.local_session_keypair.secret_key)
          /\ est.server.session_secret =
                precompute(client.local_session_keypair.public_key,
                           server.local_session_keypair.secret_key)
          /\ est.client.session_secret = est.server.session_secret

\* the whole handshake has run, its last step in the last minute allowed
C1_Witness ==
    /\ run = "done" /\ now = HANDSHAKE_DURATION
    /\ est.client # NoSession /\ est.server # NoSession

\* the kind each make_* operation is to stamp on its frame
KindOf(op) ==
    CASE op = "make_request" -> Request
      [] op = "make_response" -> Response
      [] op = "make_notification" -> Notification

\* C2 (channel correctness): on the two EstablishedSessions of a successful
\* handshake, the frame make_request, make_response or make_notification
\* returns for m has kind Request, Response or Notification respectively,
\* and read_msg on the peer side, given that frame, returns exactly m.
C2_ChannelCorrect ==
    /\ sent # NoSent => sent.frame.kind = KindOf(sent.op)
    /\ (last.op = "read_msg" /\ sent # NoSent
            /\ last.arg = sent.frame /\ last.side # sent.side)
          => last.res = OkBytes(sent.data)

\* the server has read the client's notification "ping"
C2_Witness ==
    /\ last.op = "read_msg" /\ last.side = "server"
    /\ sent.side = "client" /\ sent.op = "make_notification"
    /\ sent.data = <<Lit("ping")>> /\ last.arg = sent.frame
    /\ last.res.tag = "Ok"

\* C3 (identity authentication): validate_initiate, given the Initiate frame
\* the honest client made from this server's Welcome, returns exactly the
\* client's identity public key.
C3_IdentityAuthenticated ==
    (last.op = "validate_initiate" /\ last.arg \in HonestInitiate)
        => last.res = OkKey(Client0.local_identity_keypair.public_key)

\* the server has made its Welcome and validated the honest Initiate
C3_Witness ==
    /\ last.op = "validate_initiate" /\ last.arg \in HonestInitiate
    /\ server.state = "Initiated" /\ last.res.tag = "Ok"

\* The Initiate box of frame f opened under (remote_session_key,
\* S_session.sk), and the vouch box inside it opened under (the key at the
\* head of the Initiate plaintext, S_session.sk) with the nonce that follows
\* that key.
OpenedInitiate(f) ==
    open(f.payload, f.nonce, server.remote_session_key,
         server.local_session_keypair.secret_key)

ClaimedKey(f) == PublicKey_from_slice(Slice(OpenedInitiate(f).bytes, 0, 32))

OpenedVouch(f) ==
    LET o == OpenedInitiate(f)
    IN  IF o.tag # "Ok" \/ ByteLen(o.bytes) < MIN_INITIATE_LEN
        THEN Err("()")
        ELSE open(Slice(o.bytes, 56, ByteLen(o.bytes)),
                  Nonce_from_slice(Slice(o.bytes, 32, 56)),
                  ClaimedKey(f), server.local_session_keypair.secret_key)

ValidateOk == last.op = "validate_initiate" /\ last.res.tag = "Ok"

\* C4 as the spec states it: validate_initiate succeeds only when the
\* plaintext of the opened vouch has length 32 and equals S_session.pk.
C4_VouchIsServerKey ==
    ValidateOk =>
        /\ OpenedVouch(last.arg).tag = "Ok"
        /\ ByteLen(OpenedVouch(last.arg).bytes) = PUBLICKEYBYTES
        /\ OpenedVouch(last.arg).bytes =
              KeyBytes(server.local_session_keypair.public_key)

\* C4 (vouch check, amended): validate_initiate succeeds only when the
\* Initiate box opens, the vouch box in it opens under the key the Initiate
\* claims, and the vouch plaintext has length 32; it then returns the claimed
\* key.  The plaintext is not required to be S_session.pk.
C4_VouchIs32Bytes ==
    ValidateOk =>
        /\ OpenedVouch(last.arg).tag = "Ok"
        /\ ByteLen(OpenedVouch(last.arg).bytes) = PUBLICKEYBYTES
        /\ last.res = OkKey(ClaimedKey(last.arg))

\* validate_initiate has accepted the honest Initiate, whose vouch holds
\* C_session.pk and not S_session.pk
C4_Witness ==
    /\ ValidateOk /\ last.arg \in HonestInitiate
    /\ OpenedVouch(last.arg).bytes =
          KeyBytes(Client0.local_session_keypair.public_key)
    /\ OpenedVouch(last.arg).bytes #
          KeyBytes(server.local_session_keypair.public_key)

\* C5 (the vouch binds the client's ephemeral key): validate_initiate returns
\* Ok only if the opened vouch is exactly the key the server session holds as
\* remote_session_key.
C5_VouchBindsSessionKey ==
    ValidateOk =>
        /\ OpenedVouch(last.arg).tag = "Ok"
        /\ OpenedVouch(last.arg).bytes = KeyBytes(server.remote_session_key)

\* a step in which a call was made on the client session / on the server
\* session by an operation that takes it mutably
ClientCalled == last' # last /\ last'.side = "client"
ServerCalled == last' # last /\ last'.op \in {"make_welcome", "make_ready"}

Rejected == Err("InvalidSessionState")

\* C6 (Error is terminal): once a session has state Error, every later
\* operation on it returns InvalidSessionState, returns no frame, and leaves
\* the state Error.
C6_ErrorIsTerminal ==
    [][/\ client.state = "Error" =>
            /\ client'.state = "Error"
            /\ ClientCalled => last'.res = Rejected
       /\ server.state = "Error" =>
            /\ server'.state = "Error"
            /\ ServerCalled => last'.res = Rejected]_vars

\* the state a client operation requires
Requires(op) == IF op = "make_hello" THEN "Fresh" ELSE "Initiated"

Backward(s, t) ==
    \/ s = "Initiated" /\ t = "Fresh"
    \/ s = "Ready" /\ t \in {"Fresh", "Initiated"}

\* C7 (client state monotonicity): a client operation called in a state other
\* than the one it requires returns InvalidSessionState and leaves the state
\* unchanged; the state never moves backward and never goes from Fresh to
\* Ready directly.
C7_ClientMonotone ==
    [][/\ (ClientCalled /\ client.state # Requires(last'.op)) =>
              last'.res = Rejected /\ client'.state = client.state
       /\ ~Backward(client.state, client'.state)
       /\ ~(client.state = "Fresh" /\ client'.state = "Ready")]_vars

\* C8 (Ready is terminal): once a session has state Ready, no operation on it
\* changes the state or returns a frame or an EstablishedSession.
C8_ReadyIsTerminal ==
    [][/\ client.state = "Ready" =>
            /\ client'.state = "Ready"
            /\ ClientCalled =>
                  last'.res.frame = NoFrame /\ last'.res.session = NoSession
       /\ server.state = "Ready" =>
            /\ server'.state = "Ready"
            /\ ServerCalled =>
                  last'.res.frame = NoFrame /\ last'.res.session = NoSession]_vars

CryptoOrStructural ==
    {"DecryptionFailed", "InvalidHelloFrame", "InvalidWelcomeFrame",
     "InvalidInitiateFrame", "InvalidReadyFrame"}

\* C9 (failure propagation): a handshake operation that returns
\* DecryptionFailed, InvalidHelloFrame, InvalidWelcomeFrame,
\* InvalidInitiateFrame or InvalidReadyFrame leaves its session in state
\* Error.
C9_FailureSetsError ==
    (last.res.tag = "Err" /\ last.res.err \in CryptoOrStructural) =>
        /\ last.side = "client" => client.state = "Error"
        /\ last.side = "server" => server.state = "Error"

\* the Welcome box of frame f does not open under (server identity public
\* key, client ephemeral secret key)
WelcomeUnopened(f) ==
    open(f.payload, f.nonce, client.remote_identity_key,
         client.local_session_keypair.secret_key).tag # "Ok"

\* C10 (tampered Welcome): make_initiate, called in state Initiated on a
\* Welcome frame whose payload does not open, returns DecryptionFailed and
\* sets the state to Error; every read_ready call after that returns
\* InvalidSessionState.
C10_TamperedWelcome ==
    [][/\ (/\ last' # last /\ last'.op = "make_initiate"
           /\ client.state = "Initiated" /\ last'.arg.kind = Welcome
           /\ WelcomeUnopened(last'.arg)) =>
              last'.res = Err("DecryptionFailed") /\ client'.state = "Error"
       /\ (welcome_rejected /\ last' # last /\ last'.op = "read_ready") =>
              last'.res = Rejected]_vars

\* C11 (make_welcome outcomes): in state Fresh on a Hello-kind frame,
\* make_welcome returns a Welcome frame and sets state Initiated exactly when
\* the Hello box opens under (hello.id, server identity secret key) to 256
\* bytes; it returns InvalidHelloFrame with state Error when the box opens to
\* another length and DecryptionFailed with state Error when it does not
\* open; in another state or on another kind it returns InvalidSessionState
\* and changes nothing.
C11_MakeWelcomeOutcomes ==
    [][(last' # last /\ last'.op = "make_welcome") =>
          LET hello == last'.arg
              o == open(hello.payload, hello.nonce, hello.id,
                        server.local_identity_keypair.secret_key)
          IN  IF server.state # "Fresh" \/ hello.kind # Hello
              THEN last'.res = Rejected /\ server' = server
              ELSE IF o.tag # "Ok"
              THEN last'.res = Err("DecryptionFailed") /\ server'.state = "Error"
              ELSE IF ByteLen(o.bytes) # NULL_BYTES_LEN
              THEN last'.res = Err("InvalidHelloFrame") /\ server'.state = "Error"
              ELSE /\ last'.res.tag = "Ok" /\ last'.res.frame.kind = Welcome
                   /\ server'.state = "Initiated"]_vars

\* make_welcome has refused a Hello whose box opens to 255 bytes
C11_Witness ==
    /\ last.op = "make_welcome" /\ last.res = Err("InvalidHelloFrame")
    /\ server.state = "Error"
    /\ open(last.arg.payload, last.arg.nonce, last.arg.id,
            server.local_identity_keypair.secret_key).tag = "Ok"

\* C12 (read_ready outcomes): in state Initiated on a Ready-kind frame,
\* read_ready returns an EstablishedSession with secret
\* precompute(remote_session_key, local_session.sk) and sets state Ready
\* exactly when the payload opens under that secret to READY_PAYLOAD; it
\* returns InvalidReadyFrame when the payload opens to another plaintext and
\* DecryptionFailed when it does not open, and the state does not become
\* Ready in either case.
C12_ReadReadyOutcomes ==
    [][(/\ last' # last /\ last'.op = "read_ready"
        /\ client.state = "Initiated" /\ last'.arg.kind = Ready) =>
          LET secret == precompute(client.remote_session_key,
                                   client.local_session_keypair.secret_key)
              o == open_precomputed(last'.arg.payload, last'.arg.nonce, secret)
          IN  IF o.tag # "Ok"
              THEN last'.res = Err("DecryptionFailed") /\ client'.state # "Ready"
              ELSE IF o.bytes # READY_PAYLOAD
              THEN last'.res = Err("InvalidReadyFrame") /\ client'.state # "Ready"
              ELSE /\ last'.res.tag = "Ok"
                   /\ last'.res.session.session_secret = secret
                   /\ client'.state = "Ready"]_vars

\* C13 (make_ready contract): in state Initiated on an Initiate-kind frame,
\* make_ready returns ExpiredSession and changes nothing when now -
\* created_at > HANDSHAKE_DURATION; otherwise it records the given identity
\* key, sets state Ready and returns an EstablishedSession with a Ready frame
\* whose payload is READY_PAYLOAD sealed under precompute(C_session.pk,
\* S_session.sk); in another state or on another kind it returns
\* InvalidSessionState and changes nothing.
C13_MakeReadyContract ==
    [][(last' # last /\ last'.op = "make_ready") =>
          IF server.state # "Initiated" \/ last'.arg.kind # Initiate
          THEN last'.res = Rejected /\ server' = server
          ELSE IF now - server.created_at > HANDSHAKE_DURATION
          THEN last'.res = Err("ExpiredSession") /\ server' = server
          ELSE /\ last'.res.tag = "Ok"
               /\ server'.state = "Ready"
               /\ server'.remote_identity_key = last'.key
               /\ last'.res.session # NoSession
               /\ last'.res.frame.kind = Ready
               /\ last'.res.frame.payload =
                     seal_precomputed(READY_PAYLOAD, last'.res.frame.nonce,
                         precompute(server.remote_session_key,
                                    server.local_session_keypair.secret_key))]_vars

\* make_ready has succeeded at the last instant of the handshake
C13_Witness ==
    /\ last.op = "make_ready" /\ last.res.tag = "Ok"
    /\ now - server.created_at = HANDSHAKE_DURATION
    /\ server.state = "Ready" /\ server.remote_identity_key = last.key

\* C14 (a server session is established only by verifying the Initiate):
\* make_ready returns an EstablishedSession and sets state Ready only for an
\* Initiate frame on which validate_initiate succeeds, and the
\* remote_identity_key it records is the key validation yields for the frame.
C14_ReadyOnlyAfterValidation ==
    (last.op = "make_ready" /\ last.res.tag = "Ok") =>
        /\ validate_initiate(server, last.arg).tag = "Ok"
        /\ server.remote_identity_key = validate_initiate(server, last.arg).key

HandshakeExpired(self) == now > self.created_at + HANDSHAKE_DURATION

\* C15 (handshake expiry): once now > created_at + HANDSHAKE_DURATION, each
\* of make_welcome, make_ready, make_initiate and read_ready, called in the
\* state it requires on a frame of the kind it requires, returns
\* ExpiredSession.
C15_HandshakeExpiry ==
    [][last' # last =>
          /\ (/\ last'.op = "make_welcome" /\ server.state = "Fresh"
              /\ last'.arg.kind = Hello /\ HandshakeExpired(server))
                => last'.res = Err("ExpiredSession")
          /\ (/\ last'.op = "make_ready" /\ server.state = "Initiated"
              /\ last'.arg.kind = Initiate /\ HandshakeExpired(server))
                => last'.res = Err("ExpiredSession")
          /\ (/\ last'.op = "make_initiate" /\ client.state = "Initiated"
              /\ last'.arg.kind = Welcome /\ HandshakeExpired(client))
                => last'.res = Err("ExpiredSession")
          /\ (/\ last'.op = "read_ready" /\ client.state = "Initiated"
              /\ last'.arg.kind = Ready /\ HandshakeExpired(client))
                => last'.res = Err("ExpiredSession")]_vars

MakeOps == {"make_request", "make_response", "make_notification"}

\* C16 (established-session expiry): make_request, make_response and
\* make_notification return a frame exactly when now < expire_at, and
\* ExpiredSession for every now >= expire_at.
C16_SessionExpiry ==
    [][(last' # last /\ last'.op \in MakeOps) =>
          IF now < est[last'.side].expire_at
          THEN last'.res.tag = "Ok" /\ last'.res.frame # NoFrame
          ELSE last'.res = Err("ExpiredSession")]_vars

\* C17 (is_expired of a handshake session): is_expired() is true exactly when
\* now >= expire_at, where expire_at = created_at + HANDSHAKE_DURATION.
C17_IsExpiredSemantics ==
    [][(last' # last /\ last'.op = "is_expired") =>
          LET self == IF last'.side = "client" THEN client ELSE server
          IN  /\ self.expire_at = self.created_at + HANDSHAKE_DURATION
              /\ last'.res.flag <=> now >= self.expire_at]_vars

\* C18 (session id agreement): after a successful handshake the two
\* EstablishedSessions have the same id, the client's ephemeral public key,
\* and every frame either side builds carries that id.
C18_SessionIdAgreement ==
    /\ run = "done" =>
          /\ est.client.id = est.server.id
          /\ est.client.id = client.local_session_keypair.public_key
    /\ sent # NoSent => sent.frame.id = client.local_session_keypair.public_key

\* C19 (handshake frame ids): every frame a handshake session emits carries
\* that session's id(), the client's ephemeral public key: the client's own
\* ephemeral public key in a Hello or an Initiate, the server's
\* remote_session_key in a Welcome or a Ready.
C19_HandshakeFrameIds ==
    last.res.tag = "Ok" =>
        /\ last.op \in {"make_hello", "make_initiate"} =>
              last.res.frame.id = client.local_session_keypair.public_key
        /\ last.op \in {"make_welcome", "make_ready"} =>
              last.res.frame.id = server.remote_session_key

\* C20 (frame round trip): for every frame F, of any id, nonce, kind and
\* payload, Frame::from_slice(F.pack()) returns a frame equal to F, and the
\* packed length is F.length() = HEADER_SIZE + len(F.payload).
C20_FrameRoundTrip ==
    /\ last.op = "pack" => ByteLen(last.res.bytes) = length(last.arg)
    /\ (last.op = "from_slice" /\ last.data = pack(last.arg)) =>
          /\ last.res = OkFrame(last.arg)
          /\ ByteLen(last.data) = HEADER_SIZE + ByteLen(last.arg.payload)

\* the kind bytes of the wire format
WireTags == {1, 2, 3, 4, 5, 6, 7, 255}

\* C21 (decode failure laws): Frame::from_slice returns IncompleteFrame for
\* every input shorter than 57 bytes, whatever its content; BadFrame for
\* every input of at least 57 bytes whose byte at offset 56 is not one of
\* 1..7 and 255; and otherwise a frame whose payload is all the bytes from
\* offset 57 on, possibly none.
C21_DecodeFailureLaws ==
    last.op = "from_slice" =>
        LET i == last.data
            k == Slice(i, HEADER_SIZE - 1, HEADER_SIZE)
        IN  IF ByteLen(i) < HEADER_SIZE
            THEN last.res = Err("IncompleteFrame")
            ELSE IF k[1].t = "byte" /\ k[1].n \notin WireTags
            THEN last.res = Err("BadFrame")
            ELSE /\ k[1].t = "byte"
                 /\ last.res.tag = "Ok"
                 /\ last.res.frame.payload = DropBytes(i, HEADER_SIZE)

\* an input of exactly 57 bytes with kind byte 255 decodes to a Termination
\* frame with an empty payload
C21_Witness ==
    /\ last.op = "from_slice"
    /\ ByteLen(last.data) = HEADER_SIZE
    /\ last.res.tag = "Ok"
    /\ last.res.frame.kind = Termination
    /\ last.res.frame.payload = <<>>

\* the tag byte of each kind on the wire
WireTag(kind) ==
    CASE kind = Hello -> 1
      [] kind = Welcome -> 2
      [] kind = Initiate -> 3
      [] kind = Ready -> 4
      [] kind = Request -> 5
      [] kind = Response -> 6
      [] kind = Notification -> 7
      [] kind = Termination -> 255

\* C22 (kind tags on the wire): packing a frame writes at offset 56 the tag
\* byte of its kind, Hello = 1 up to Notification = 7 and Termination = 255,
\* and FrameKind::from_slice maps exactly those single bytes back to the same
\* kinds, and returns None for any other byte and for any slice whose length
\* is not 1.
C22_KindTagsOnWire ==
    /\ last.op = "pack" =>
          Slice(last.res.bytes, HEADER_SIZE - 1, HEADER_SIZE)
            = <<ByteChunk(WireTag(last.arg.kind))>>
    /\ \A kind \in FrameKind :
          FrameKind_from_slice(<<ByteChunk(WireTag(kind))>>) = kind
    /\ \A b \in (0..255) \ WireTags :
          FrameKind_from_slice(<<ByteChunk(b)>>) = "NoKind"
    /\ FrameKind_from_slice(<<>>) = "NoKind"
    /\ FrameKind_from_slice(<<ByteChunk(1), ByteChunk(2)>>) = "NoKind"

\* C23 (anti-amplification): for every Hello frame that make_welcome
\* accepts, the Welcome frame it returns is 57 + 32 + 16 = 105 bytes on the
\* wire, the Hello frame 57 + 256 + 16 = 329 bytes, and so the Welcome is
\* strictly shorter than the Hello it answers.
C23_AntiAmplification ==
    (last.op = "make_welcome" /\ last.res.tag = "Ok") =>
        /\ length(last.res.frame) = HEADER_SIZE + PUBLICKEYBYTES + MACBYTES
        /\ length(last.arg) = HEADER_SIZE + NULL_BYTES_LEN + MACBYTES
        /\ length(last.res.frame) < length(last.arg)

\* a forged Hello, from a key of the sender's own choosing, is answered
\* with a shorter Welcome
C23_Witness ==
    /\ last.op = "make_welcome"
    /\ last.res.tag = "Ok"
    /\ last.arg.id = "X"
    /\ length(last.res.frame) < length(last.arg)

\* C24 (open failures are DecryptionFailed): make_welcome on the Hello box,
\* make_initiate on the Welcome box, read_ready on the Ready box and
\* validate_initiate on the outer Initiate box each return DecryptionFailed
\* when the box of the frame they are given does not open.
C24_OpenFailureIsDecryptionFailed ==
    [][last' # last =>
          /\ (/\ last'.op = "make_welcome"
              /\ server.state = "Fresh" /\ last'.arg.kind = Hello
              /\ open(last'.arg.payload, last'.arg.nonce, last'.arg.id,
                      server.local_identity_keypair.secret_key).tag # "Ok") =>
                 last'.res = Err("DecryptionFailed")
          /\ (/\ last'.op = "make_initiate"
              /\ client.state = "Initiated" /\ last'.arg.kind = Welcome
              /\ WelcomeUnopened(last'.arg)) =>
                 last'.res = Err("DecryptionFailed")
          /\ (/\ last'.op = "read_ready"
              /\ client.state = "Initiated" /\ last'.arg.kind = Ready
              /\ open(last'.arg.payload, last'.arg.nonce,
                      client.remote_session_key,
                      client.local_session_keypair.secret_key).tag # "Ok") =>
                 last'.res = Err("DecryptionFailed")
          /\ (/\ last'.op = "validate_initiate"
              /\ OpenedInitiate(last'.arg).tag # "Ok") =>
                 last'.res = Err("DecryptionFailed")]_vars

\* C25 (read_ready never aborts): in every reachable client state in which
\* read_ready passes its guard (state Initiated, frame kind Ready) the
\* remote_session_key is present, so that read_ready returns an
\* EstablishedSession or an error, also when it is called directly after
\* make_hello, before make_initiate has processed a Welcome.
C25_ReadReadyNeverAborts ==
    /\ client.state = "Initiated" => client.remote_session_key # NoKey
    /\ last.op = "read_ready" => last.res.tag \in {"Ok", "Err"}

\* C26 (validate_initiate is total): for any frame, in any server state,
\* validate_initiate returns Ok(public key) or an error value and never
\* aborts; when the Initiate box opens to at least 60 bytes and the vouch
\* box opens to a plaintext whose length is not 32, it returns
\* InvalidInitiateFrame.
C26_ValidateInitiateTotal ==
    last.op = "validate_initiate" =>
        /\ last.res.tag \in {"Ok", "Err"}
        /\ (/\ OpenedVouch(last.arg).tag = "Ok"
            /\ ByteLen(OpenedVouch(last.arg).bytes) # PUBLICKEYBYTES) =>
               last.res = Err("InvalidInitiateFrame")

\* C27 (one server ephemeral key): once make_initiate has succeeded and
\* stored remote_session_key, no later operation on that client changes
\* remote_session_key, a second make_initiate with another Welcome that opens
\* under the same server identity included, and the client emits no second
\* Initiate frame.
C27_OneServerKey ==
    [][client.remote_session_key # NoKey =>
          /\ client'.remote_session_key = client.remote_session_key
          /\ (last' # last /\ last'.op = "make_initiate") =>
                 last'.res.tag # "Ok"]_vars

\* the operations of the handshake
HandshakeOps ==
    {"make_hello", "make_welcome", "make_initiate", "validate_initiate",
     "make_ready", "read_ready"}

\* C28 (handshake progress): with an honest client and an honest server
\* whose long-term keys match, every frame delivered unmodified and in
\* order, every step taken within HANDSHAKE_DURATION and each side taking its
\* next step whenever it is enabled, no step of the handshake returns an
\* error, and eventually both sessions are in state Ready and each side
\* holds an EstablishedSession.
C28_HandshakeProgress ==
    /\ [](last.op \in HandshakeOps => last.res.tag = "Ok")
    /\ <>(/\ client.state = "Ready" /\ server.state = "Ready"
          /\ est.client # NoSession /\ est.server # NoSession)

\* the handshake has run to its end before any time has passed
C28_Witness ==
    /\ run = "done" /\ now = 0
    /\ last.op = "read_ready" /\ last.res.tag = "Ok"
    /\ client.state = "Ready" /\ server.state = "Ready"

====
